---- MODULE Spec2Model ----
(***************************************************************************)
(* Model of george/modeling.py: the ModelingMixin parameter store, its     *)
(* vector projection, freeze/thaw by glob pattern, and the finite          *)
(* difference gradient routines get_gradient and check_gradient.           *)
(*                                                                         *)
(* Representation.                                                         *)
(*  - A parameter name is a tuple of one-character strings, so that the    *)
(*    code's tests on the characters of a key ("*" in k, int(k), fnmatch)  *)
(*    are computed and not assumed.                                        *)
(*  - self._parameters (an OrderedDict) is a sequence of records           *)
(*    [k |-> name, v |-> value]; self._frozen (a dict) is a function from  *)
(*    a set of names to BOOLEAN.                                           *)
(*  - A value is a float64 written in units of 1e-8, an integer here.      *)
(*    Python floats are float64, so np.float64(v) and float(v) keep the    *)
(*    number; rounding of v + eps is not modelled.                         *)
(*  - List indexing is the list indexing of Python 2 (keys()[i]), the      *)
(*    dialect the file is written in (iteritems, izip, xrange).            *)
(*  - parameters and frozen are the two mappings as seen through one       *)
(*    instance; peer is the sequence of the other instances of the class,  *)
(*    each a record [parameters, frozen]; ret is the value the last call   *)
(*    returned.                                                            *)
(***************************************************************************)
EXTENDS Integers, Sequences, FiniteSets, TLC

VARIABLES parameters, frozen, err, op, proc, origin, calls, ret, peer

vars == <<parameters, frozen, err, op, proc, origin, calls, ret, peer>>

\* the state of the gradient routines
gvars == <<proc, origin, calls>>

----------------------------------------------------------------------------
(* Bounds of the model *)

\* number of keyword arguments given to the constructor
MaxParams == 2
\* scalar inputs are 0 .. MaxValue
MaxValue == 1
\* length of the sequences handed to set_parameter
MaxSeqLen == 2
\* number of get_gradient and check_gradient calls in one behaviour
MaxCalls == 2
\* number of protocol members that an object handed to
\* supports_modeling_protocol lacks or has in another form than a method
MaxDefects == 1

----------------------------------------------------------------------------
(* Characters and names *)

\* ord() of the characters that occur in the names and patterns of the model
Ord ==
    ("*" :> 42) @@ ("-" :> 45) @@ ("1" :> 49) @@ ("?" :> 63) @@
    ("[" :> 91) @@ ("]" :> 93) @@ ("_" :> 95) @@ ("a" :> 97) @@
    ("b" :> 98) @@ ("c" :> 99) @@ ("e" :> 101) @@ ("f" :> 102) @@
    ("n" :> 110) @@ ("o" :> 111) @@ ("r" :> 114) @@ ("z" :> 122) @@
    ("!" :> 33)

\* value of a decimal digit
DigitValue == ("1" :> 1)

NameA == <<"a">>
NameB == <<"b">>
NameC == <<"c">>
NameBStar == <<"b", "*">>
NameOne == <<"1">>
NameFrozen == <<"_", "f", "r", "o", "z", "e", "n">>
KeyMinusOne == <<"-", "1">>
PatStar == <<"*">>
PatClassA == <<"[", "a", "]">>

\* names the constructor may be given as keyword arguments
InitNames == {NameA, NameB, NameBStar, NameOne, NameFrozen}

\* keys used with store[k] = v: the names of the store, a name it does not
\* hold, and two keys that int() accepts
Keys(P) == {P[i].k : i \in 1 .. Len(P)} \cup {NameC, NameOne, KeyMinusOne}

\* patterns used with get_parameter, set_parameter, freeze_parameter and
\* thaw_parameter: the names of the store, a name it does not hold, and two
\* patterns written with the special characters of fnmatch
Patterns(P) == {P[i].k : i \in 1 .. Len(P)} \cup {NameC, PatStar, PatClassA}

Scalars == 0 .. MaxValue

\* the dict object that __init__ builds for self._frozen, when it ends up
\* stored as a parameter value; it is not a number
DictValue == -1

NoError == "none"

----------------------------------------------------------------------------
(* str comparison, sorted() *)

RECURSIVE LexLess(_, _)
LexLess(s, t) ==
    IF s = <<>> THEN t # <<>>
    ELSE IF t = <<>> THEN FALSE
    ELSE IF Head(s) = Head(t) THEN LexLess(Tail(s), Tail(t))
    ELSE Ord[Head(s)] < Ord[Head(t)]

RECURSIVE SortedNames(_)
SortedNames(S) ==
    IF S = {} THEN <<>>
    ELSE LET m == CHOOSE x \in S : \A y \in S \ {x} : LexLess(x, y)
         IN  <<m>> \o SortedNames(S \ {m})

----------------------------------------------------------------------------
(* fnmatch.fnmatch(name, pat): fnmatch.translate followed by re.match *)

\* a regular-expression character set: x-y is a range, anything else itself
RECURSIVE ClassMatch(_, _)
ClassMatch(c, body) ==
    IF body = <<>> THEN FALSE
    ELSE IF Len(body) >= 3 /\ body[2] = "-"
         THEN \/ (Ord[body[1]] <= Ord[c] /\ Ord[c] <= Ord[body[3]])
              \/ ClassMatch(c, SubSeq(body, 4, Len(body)))
         ELSE \/ c = body[1]
              \/ ClassMatch(c, Tail(body))

\* position of the "]" that closes the "[" at position 1 of p, 0 when none
ClassEnd(p) ==
    LET n  == Len(p)
        j0 == 2
        j1 == IF j0 <= n /\ p[j0] = "!" THEN j0 + 1 ELSE j0
        j2 == IF j1 <= n /\ p[j1] = "]" THEN j1 + 1 ELSE j1
        closing == {j \in j2 .. n : p[j] = "]"}
    IN  IF closing = {} THEN 0
        ELSE CHOOSE j \in closing : \A i \in closing : j <= i

RECURSIVE FnMatch(_, _)
FnMatch(s, p) ==
    IF p = <<>> THEN s = <<>>
    ELSE LET c == Head(p) IN
         IF c = "*"
         THEN \E n \in 0 .. Len(s) : FnMatch(SubSeq(s, n + 1, Len(s)), Tail(p))
         ELSE IF c = "?"
         THEN s # <<>> /\ FnMatch(Tail(s), Tail(p))
         ELSE IF c = "[" /\ ClassEnd(p) # 0
         THEN LET j     == ClassEnd(p)
                  stuff == SubSeq(p, 2, j - 1)
                  neg   == stuff[1] = "!"
                  body  == IF neg THEN Tail(stuff) ELSE stuff
              IN  /\ s # <<>>
                  /\ ClassMatch(Head(s), body) # neg
                  /\ FnMatch(Tail(s), SubSeq(p, j + 1, Len(p)))
         ELSE s # <<>> /\ Head(s) = c /\ FnMatch(Tail(s), Tail(p))

----------------------------------------------------------------------------
(* Keys *)

\* "*" in k or "?" in k
HasWildcard(k) == \E i \in 1 .. Len(k) : k[i] \in {"*", "?"}

RECURSIVE Digits(_, _)
Digits(s, acc) ==
    IF s = <<>> THEN acc ELSE Digits(Tail(s), 10 * acc + DigitValue[Head(s)])

\* int(k): an optional sign followed by decimal digits; ok is FALSE where
\* int(k) raises ValueError
ParseInt(k) ==
    LET signed == k # <<>> /\ Head(k) \in {"-", "+"}
        body   == IF signed THEN Tail(k) ELSE k
    IN  IF body = <<>> \/ \E i \in 1 .. Len(body) : body[i] \notin DOMAIN DigitValue
        THEN [ok |-> FALSE, n |-> 0]
        ELSE [ok |-> TRUE,
              n |-> IF signed /\ Head(k) = "-" THEN 0 - Digits(body, 0)
                    ELSE Digits(body, 0)]

----------------------------------------------------------------------------
(* The ordered mapping self._parameters *)

ParamKeys(P) == [i \in 1 .. Len(P) |-> P[i].k]

KeySet(P) == {P[i].k : i \in 1 .. Len(P)}

IndexOf(P, k) == CHOOSE i \in 1 .. Len(P) : P[i].k = k

Lookup(P, k) == P[IndexOf(P, k)].v

\* the values of all parameters, in store order
ParamValues(P) == [i \in 1 .. Len(P) |-> P[i].v]

\* the elements of s at the positions I, from position j on, in order
RECURSIVE Pick(_, _, _)
Pick(s, I, j) ==
    IF j > Len(s) THEN <<>>
    ELSE IF j \in I THEN <<s[j]>> \o Pick(s, I, j + 1)
    ELSE Pick(s, I, j + 1)

None == "None"

\* a new key put in front of the others
AssignFirst(P, k, v) ==
    IF k \in KeySet(P)
    THEN [i \in 1 .. Len(P) |-> IF P[i].k = k THEN [k |-> k, v |-> v] ELSE P[i]]
    ELSE <<[k |-> k, v |-> v]>> \o P

\* self._parameters[k] = v
Assign(P, k, v) ==
    IF k \in KeySet(P)
    THEN [i \in 1 .. Len(P) |-> IF P[i].k = k THEN [k |-> k, v |-> v] ELSE P[i]]
    ELSE Append(P, [k |-> k, v |-> v])

----------------------------------------------------------------------------
(* Input values.  A value handed to a setter is a scalar or a sequence of  *)
(* scalars: [scalar |-> TRUE, items |-> <<x>>] is the scalar x,            *)
(* [scalar |-> FALSE, items |-> xs] the sequence xs.                       *)

ScalarValue(x) == [scalar |-> TRUE, items |-> <<x>>]

SeqValue(xs) == [scalar |-> FALSE, items |-> xs]

SeqsUpTo(S, n) == UNION {[1 .. l -> S] : l \in 0 .. n}

\* the class attribute _frozen = dict(), as long as no instance has put a
\* name into it
ClassFrozen == <<>>

----------------------------------------------------------------------------
(* ModelingMixin.__init__ *)

\* self._parameters = ...; self._frozen = ...  Both assignments go through
\* __setattr__, which stores into self._parameters when the attribute name
\* is a parameter name.
Construct(kwargs) ==
    LET sorted == SortedNames(DOMAIN kwargs)
        P0 == [i \in 1 .. Len(sorted) |-> [k |-> sorted[i], v |-> kwargs[sorted[i]]]]
        F0 == [k \in DOMAIN kwargs |-> FALSE]
    IN  IF NameFrozen \in KeySet(P0)
        THEN [parameters |-> Assign(P0, NameFrozen, DictValue), frozen |-> ClassFrozen]
        ELSE [parameters |-> P0, frozen |-> F0]

----------------------------------------------------------------------------
(* ModelingMixin.set_parameter *)

RECURSIVE SetParameterFrom(_, _, _, _, _)
SetParameterFrom(P, j, i, pat, value) ==
    IF j > Len(P)
    THEN [parameters |-> P, err |-> IF i = 0 THEN "ValueError" ELSE NoError]
    ELSE IF ~FnMatch(P[j].k, pat)
    THEN SetParameterFrom(P, j + 1, i, pat, value)
    ELSE IF value.scalar
    THEN SetParameterFrom(Assign(P, P[j].k, value.items[1]), j + 1, i + 1, pat, value)
    ELSE IF i < Len(value.items)
    THEN SetParameterFrom(Assign(P, P[j].k, value.items[i + 1]), j + 1, i + 1, pat, value)
    ELSE [parameters |-> P, err |-> "IndexError"]

SetParameter(P, pat, value) == SetParameterFrom(P, 1, 0, pat, value)

----------------------------------------------------------------------------
(* ModelingMixin.get_parameter, __getitem__ *)

\* the positions of the names that fnmatch.fnmatch(k, pat) accepts
Matches(P, pat) == {i \in 1 .. Len(P) : FnMatch(P[i].k, pat)}

\* the value is a number when one name matches, an array when several do
GetParameter(P, pat) ==
    LET params == Pick(ParamValues(P), Matches(P, pat), 1)
    IN  IF Len(params) = 0 THEN [err |-> "ValueError", value |-> None]
        ELSE IF Len(params) = 1 THEN [err |-> NoError, value |-> params[1]]
        ELSE [err |-> NoError, value |-> params]

GetItem(P, k) ==
    IF HasWildcard(k) THEN GetParameter(P, k)
    ELSE LET int == ParseInt(k)
             i   == int.n
             n   == Len(P)
         IN  IF ~int.ok
             THEN IF k \in KeySet(P) THEN [err |-> NoError, value |-> Lookup(P, k)]
                  ELSE [err |-> "KeyError", value |-> None]
             ELSE IF i >= n \/ i < 0 - n THEN [err |-> "IndexError", value |-> None]
             ELSE [err |-> NoError,
                   value |-> IF i >= 0 THEN P[i + 1].v ELSE P[n + i + 1].v]

----------------------------------------------------------------------------
(* ModelingMixin.__setitem__ *)

SetItem(P, F, k, value) ==
    IF HasWildcard(k)
    THEN LET r == SetParameter(P, k, value)
         IN  [parameters |-> r.parameters, frozen |-> F, err |-> r.err]
    ELSE LET int == ParseInt(k)
             i   == int.n
             n   == Len(P)
         IN  IF int.ok /\ (i >= n \/ i < 0 - n)
             THEN [parameters |-> P, frozen |-> F, err |-> "IndexError"]
             ELSE LET k2 == IF ~int.ok THEN k
                            ELSE IF i >= 0 THEN P[i + 1].k ELSE P[n + i + 1].k
                  IN  IF k2 \in KeySet(P)
                      THEN [parameters |-> Assign(P, k2, value.items[1]),
                            frozen |-> F, err |-> NoError]
                      ELSE [parameters |-> Assign(P, k2, value.items[1]),
                            frozen |-> (k2 :> FALSE) @@ F, err |-> NoError]

----------------------------------------------------------------------------
(* ModelingMixin.__setattr__, for an attribute name other than the two     *)
(* private mappings                                                        *)

SetAttr(P, k, v) == IF k \in KeySet(P) THEN Assign(P, k, v) ELSE P

----------------------------------------------------------------------------
(* __len__, get_parameter_names, get_bounds, get_vector *)

StoreLen(F) == Cardinality(DOMAIN F) - Cardinality({k \in DOMAIN F : F[k]})

\* self._frozen[k] raises KeyError for a key the mapping lacks
FrozenLookupFails(P, F) == \E k \in KeySet(P) : k \notin DOMAIN F

FreeIndices(P, F) == {i \in 1 .. Len(P) : ~F[P[i].k]}

GetParameterNames(P, F, full) ==
    IF full THEN [err |-> NoError, value |-> ParamKeys(P)]
    ELSE IF FrozenLookupFails(P, F) THEN [err |-> "KeyError", value |-> <<>>]
    ELSE [err |-> NoError, value |-> Pick(ParamKeys(P), FreeIndices(P, F), 1)]

\* one end of a bound: None, or a number
NoBound == [set |-> FALSE, at |-> 0]

BoundAt(x) == [set |-> TRUE, at |-> x]

GetBounds(F) == [i \in 1 .. StoreLen(F) |-> <<NoBound, NoBound>>]

\* the test with the bounds themselves taken for outside
OutsideOrOn(pair, v) ==
    \/ pair[1].set /\ v <= pair[1].at
    \/ pair[2].set /\ pair[2].at <= v

\* (a is not None and v < a) or (b is not None and b < v)
Outside(pair, v) ==
    \/ pair[1].set /\ v < pair[1].at
    \/ pair[2].set /\ pair[2].at < v

\* check_vector(vector), bounds being what self.get_bounds() returns: the
\* loop ends at the first index whose value is outside its bound, or that
\* the vector does not have
CheckVector(bounds, vector) ==
    LET stop == {i \in 1 .. Len(bounds) :
                    i > Len(vector) \/ Outside(bounds[i], vector[i])}
    IN  IF stop = {} THEN [err |-> NoError, value |-> TRUE]
        ELSE LET i == CHOOSE j \in stop : \A l \in stop : j <= l
             IN  IF i > Len(vector) THEN [err |-> "IndexError", value |-> None]
                 ELSE [err |-> NoError, value |-> FALSE]

\* np.float64 of a Python float
Float64(v) == v

GetVector(P, F) ==
    IF FrozenLookupFails(P, F) THEN [err |-> "KeyError", value |-> <<>>]
    ELSE [err |-> NoError,
          value |-> Pick([i \in 1 .. Len(P) |-> Float64(P[i].v)], FreeIndices(P, F), 1)]

----------------------------------------------------------------------------
(* ModelingMixin.set_vector *)

Min(a, b) == IF a <= b THEN a ELSE b

RECURSIVE SetVectorFrom(_, _, _, _, _)
SetVectorFrom(P, F, names, vector, j) ==
    IF j > Min(Len(names), Len(vector))
    THEN [parameters |-> P, frozen |-> F, err |-> NoError]
    ELSE LET r == SetItem(P, F, names[j], ScalarValue(vector[j]))
         IN  IF r.err # NoError THEN r
             ELSE SetVectorFrom(r.parameters, r.frozen, names, vector, j + 1)

SetVector(P, F, vector) ==
    LET names == GetParameterNames(P, F, FALSE)
    IN  IF names.err # NoError
        THEN [parameters |-> P, frozen |-> F, err |-> names.err]
        ELSE SetVectorFrom(P, F, names.value, vector, 1)

----------------------------------------------------------------------------
(* ModelingMixin.freeze_parameter, thaw_parameter *)

\* the loop without its continue: every name is frozen
FreezeEveryName(F, pat) ==
    LET hit == {k \in DOMAIN F : FnMatch(k, pat)}
    IN  [frozen |-> [k \in DOMAIN F |-> TRUE],
         err |-> IF hit = {} THEN "ValueError" ELSE NoError]

FreezeParameter(F, pat) ==
    LET hit == {k \in DOMAIN F : FnMatch(k, pat)}
    IN  [frozen |-> [k \in DOMAIN F |-> IF k \in hit THEN TRUE ELSE F[k]],
         err |-> IF hit = {} THEN "ValueError" ELSE NoError]

ThawParameter(F, pat) ==
    LET hit == {k \in DOMAIN F : FnMatch(k, pat)}
    IN  [frozen |-> [k \in DOMAIN F |-> IF k \in hit THEN FALSE ELSE F[k]],
         err |-> IF hit = {} THEN "ValueError" ELSE NoError]

----------------------------------------------------------------------------
(* get_gradient and check_gradient: the state of one call *)

\* _EPS = 1.254e-5 and the default eps = 1.23e-5 of check_gradient, in units
\* of 1e-8
EPS == 1254

CheckEps == 1230

\* the execution contexts that call into the one store
Procs == {1, 2}

Snapshot(P, F) == [parameters |-> P, frozen |-> F]

\* pc: where the call stands; kind: the routine called; vector, i, v: the
\* locals of the routine (i counts from 1); base: the store when the call
\* was made; seen: the vector the last get_value found in the store;
\* nevals: the number of get_value calls; clean: every get_value so far
\* found in the store the vector the routine had just set
IdleProc ==
    [pc |-> "idle", kind |-> "none", vector |-> <<>>, i |-> 0, v |-> 0,
     base |-> Snapshot(<<>>, <<>>), seen |-> <<>>, nevals |-> 0, clean |-> TRUE]

----------------------------------------------------------------------------
(* The class attributes _parameters and _frozen, and the other instances *)

\* self._frozen is the dict of the class, not one of the instance, when the
\* constructor was given the keyword _frozen: line 24 then stores into
\* self._parameters.  (No call of the model adds this name later.)
UsesClassFrozen(P) == NameFrozen \in KeySet(P)

\* the other instances, after the instance with the names of P has left F
\* in its self._frozen: those that read the dict of the class find F
SeenByPeers(others, P, F) ==
    [i \in DOMAIN others |->
        IF UsesClassFrozen(P) /\ UsesClassFrozen(others[i].parameters)
        THEN [others[i] EXCEPT !.frozen = F]
        ELSE others[i]]

----------------------------------------------------------------------------
(* The store: one instance and the calls made on it *)

\* the last call: its name, its key or pattern, the value given to
\* store[k] = value and to set_parameter or the vector given to set_vector,
\* and the number of names and of free names the store had when the call
\* was made
OpRecord(name, key, arg, P, F) ==
    [name |-> name, key |-> key, arg |-> arg,
     names |-> Len(P), free |-> StoreLen(F)]

Init ==
    \E names \in SUBSET InitNames :
        /\ Cardinality(names) <= MaxParams
        /\ \E kwargs \in [names -> Scalars] :
              /\ parameters = Construct(kwargs).parameters
              /\ frozen = Construct(kwargs).frozen
        /\ err = NoError
        /\ op = [name |-> "__init__", key |-> <<>>, arg |-> <<>>,
                 names |-> 0, free |-> 0]
        /\ proc = [p \in Procs |-> IdleProc]
        /\ origin = Snapshot(<<>>, <<>>)
        /\ calls = 0
        /\ ret = None
        /\ peer = <<>>

InputValues ==
    {ScalarValue(x) : x \in Scalars} \cup
    {SeqValue(xs) : xs \in SeqsUpTo(Scalars, MaxSeqLen)}

\* values the caller stores under key k: a sequence only through a pattern
ValuesFor(k) ==
    IF HasWildcard(k) THEN InputValues ELSE {ScalarValue(x) : x \in Scalars}

\* store[k] = value
DoSetItem ==
    \E k \in Keys(parameters) : \E value \in ValuesFor(k) :
        LET r == SetItem(parameters, frozen, k, value)
        IN  /\ parameters' = r.parameters
            /\ frozen' = r.frozen
            /\ err' = r.err
            /\ op' = OpRecord("__setitem__", k, value, parameters, frozen)
            /\ ret' = None
            /\ peer' = SeenByPeers(peer, parameters, r.frozen)
            /\ UNCHANGED gvars

\* store.k = v, k the name of a parameter
DoSetAttr ==
    \E k \in KeySet(parameters) : \E v \in Scalars :
        /\ parameters' = SetAttr(parameters, k, v)
        /\ err' = NoError
        /\ op' = OpRecord("__setattr__", k, <<>>, parameters, frozen)
        /\ ret' = None
        /\ UNCHANGED <<frozen, gvars, peer>>

\* store.set_parameter(pat, value)
DoSetParameter ==
    \E pat \in Patterns(parameters) : \E value \in InputValues :
        LET r == SetParameter(parameters, pat, value)
        IN  /\ parameters' = r.parameters
            /\ err' = r.err
            /\ op' = OpRecord("set_parameter", pat, value, parameters, frozen)
            /\ ret' = None
            /\ UNCHANGED <<frozen, gvars, peer>>

\* store.freeze_parameter(pat)
DoFreeze ==
    \E pat \in Patterns(parameters) :
        LET r == FreezeParameter(frozen, pat)
        IN  /\ frozen' = r.frozen
            /\ err' = r.err
            /\ op' = OpRecord("freeze_parameter", pat, <<>>, parameters, frozen)
            /\ ret' = None
            /\ peer' = SeenByPeers(peer, parameters, r.frozen)
            /\ UNCHANGED <<parameters, gvars>>

\* store.thaw_parameter(pat)
DoThaw ==
    \E pat \in Patterns(parameters) :
        LET r == ThawParameter(frozen, pat)
        IN  /\ frozen' = r.frozen
            /\ err' = r.err
            /\ op' = OpRecord("thaw_parameter", pat, <<>>, parameters, frozen)
            /\ ret' = None
            /\ peer' = SeenByPeers(peer, parameters, r.frozen)
            /\ UNCHANGED <<parameters, gvars>>

\* store.set_vector(vector), the vector up to one longer than the store
DoSetVector ==
    \E vector \in SeqsUpTo(Scalars, StoreLen(frozen) + 1) :
        LET r == SetVector(parameters, frozen, vector)
        IN  /\ parameters' = r.parameters
            /\ frozen' = r.frozen
            /\ err' = r.err
            /\ op' = OpRecord("set_vector", <<>>, vector, parameters, frozen)
            /\ ret' = None
            /\ peer' = SeenByPeers(peer, parameters, r.frozen)
            /\ UNCHANGED gvars

Next ==
    \/ DoSetItem
    \/ DoSetAttr
    \/ DoSetParameter
    \/ DoFreeze
    \/ DoThaw
    \/ DoSetVector

Spec == Init /\ [][Next]_vars

----------------------------------------------------------------------------
(* Two instances of the class *)

\* the calls that change a store (P, F): what each leaves and how it ends
StoreCalls(P, F) ==
    UNION {{SetItem(P, F, k, value) : value \in ValuesFor(k)} : k \in Keys(P)}
    \cup {[parameters |-> SetParameter(P, pat, value).parameters, frozen |-> F,
           err |-> SetParameter(P, pat, value).err] :
             pat \in Patterns(P), value \in InputValues}
    \cup {[parameters |-> P, frozen |-> FreezeParameter(F, pat).frozen,
           err |-> FreezeParameter(F, pat).err] : pat \in Patterns(P)}
    \cup {[parameters |-> P, frozen |-> ThawParameter(F, pat).frozen,
           err |-> ThawParameter(F, pat).err] : pat \in Patterns(P)}
    \cup {SetVector(P, F, vector) :
             vector \in SeqsUpTo(Scalars, StoreLen(F) + 1)}

\* what op holds after a call on another instance
PeerCall == [name |-> "peer", key |-> <<>>, arg |-> <<>>, names |-> 0, free |-> 0]

\* one of these calls, made on the other instance i
DoOnPeer ==
    \E i \in DOMAIN peer :
        \E r \in StoreCalls(peer[i].parameters, peer[i].frozen) :
            /\ peer' = [j \in DOMAIN peer |->
                          IF j = i THEN Snapshot(r.parameters, r.frozen)
                          ELSE SeenByPeers(peer, peer[i].parameters, r.frozen)[j]]
            /\ frozen' = IF /\ UsesClassFrozen(parameters)
                            /\ UsesClassFrozen(peer[i].parameters)
                         THEN r.frozen ELSE frozen
            /\ err' = r.err
            /\ op' = PeerCall
            /\ ret' = None
            /\ UNCHANGED <<parameters, gvars>>

\* the stores ModelingMixin(**kwargs) builds with the names of one of sets
Constructed(sets) ==
    UNION {{Construct(kwargs) : kwargs \in [names -> Scalars]} : names \in sets}

\* two instances, the first built with the one name a or the one name
\* _frozen, the other with the one name _frozen or with no name
InitInstances ==
    /\ \E c \in Constructed({{NameA}, {NameFrozen}}) :
          /\ parameters = c.parameters
          /\ frozen = c.frozen
    /\ \E c \in Constructed({{}, {NameFrozen}}) :
          peer = <<Snapshot(c.parameters, c.frozen)>>
    /\ err = NoError
    /\ op = [name |-> "__init__", key |-> <<>>, arg |-> <<>>,
             names |-> 0, free |-> 0]
    /\ proc = [p \in Procs |-> IdleProc]
    /\ origin = Snapshot(<<>>, <<>>)
    /\ calls = 0
    /\ ret = None

NextInstances == Next \/ DoOnPeer

SpecInstances == InitInstances /\ [][NextInstances]_vars

----------------------------------------------------------------------------
(* check_vector, on an instance of the class or of a subclass that gives    *)
(* bounds                                                                  *)

\* what get_bounds() returns: a pair for each free parameter, each end None
\* or the number 0 (the (None, None) of the class among them)
BoundsFor(F) ==
    [1 .. StoreLen(F) -> {NoBound, BoundAt(0)} \X {NoBound, BoundAt(0)}]

\* the vectors handed to check_vector: numbers below, on and above the bound
VectorsFor(F) == SeqsUpTo(-1 .. MaxValue, StoreLen(F))

\* store.check_vector(vector)
DoCheckVector ==
    \E bounds \in BoundsFor(frozen) : \E vector \in VectorsFor(frozen) :
        LET r == CheckVector(bounds, vector)
        IN  /\ ret' = r.value
            /\ err' = r.err
            /\ op' = OpRecord("check_vector", bounds, vector, parameters, frozen)
            /\ UNCHANGED <<parameters, frozen, gvars, peer>>

\* the constructor is given names among a and b, with the value 0
InitBounds ==
    /\ Init
    /\ KeySet(parameters) \subseteq {NameA, NameB}
    /\ \A i \in 1 .. Len(parameters) : parameters[i].v = 0

NextBounds ==
    \/ DoCheckVector
    \/ DoFreeze
    \/ DoThaw

SpecBounds == InitBounds /\ [][NextBounds]_vars

----------------------------------------------------------------------------
(* supports_modeling_protocol *)

Methods ==
    <<"get_value", "get_gradient", "get_parameter_names", "get_vector",
      "check_vector", "set_vector", "freeze_parameter", "thaw_parameter",
      "get_parameter", "set_parameter", "get_bounds">>

MethodNames == {Methods[i] : i \in 1 .. Len(Methods)}

\* what len(obj) does: it returns an int, or raises TypeError (the object has
\* no __len__, or one that returns no int), or __len__ raises another
\* exception (ValueError when it returns a negative number)
LenOutcomes == {"int", "TypeError", "ValueError"}

\* what getattr(obj, method, None) does: it returns a callable, or another
\* object, or None because the lookup raised AttributeError, or the lookup
\* (a property, a __getattr__) raises another exception
AttrOutcomes == {"callable", "other", "absent", "RuntimeError"}

\* the objects: an outcome of len() and one of each lookup; all but
\* MaxDefects of the lookups give a callable.  An instance of ModelingMixin
\* is the object with a length and eleven callables.
Objects ==
    UNION {{[len |-> l,
             attr |-> [m \in MethodNames |->
                          IF m \in D THEN found[m] ELSE "callable"]] :
               l \in LenOutcomes, found \in [D -> AttrOutcomes \ {"callable"}]} :
           D \in {E \in SUBSET MethodNames : Cardinality(E) <= MaxDefects}}

\* callable() taken for hasattr(): any attribute that is there will do
SupportsWithHasattr(obj) ==
    IF obj.len = "TypeError" THEN [err |-> NoError, value |-> FALSE]
    ELSE IF obj.len # "int" THEN [err |-> obj.len, value |-> None]
    ELSE LET stop == {i \in 1 .. Len(Methods) :
                         obj.attr[Methods[i]] \notin {"callable", "other"}}
         IN  IF stop = {} THEN [err |-> NoError, value |-> TRUE]
             ELSE LET i == CHOOSE j \in stop : \A l \in stop : j <= l
                      found == obj.attr[Methods[i]]
                  IN  IF found = "absent"
                      THEN [err |-> NoError, value |-> FALSE]
                      ELSE [err |-> found, value |-> None]

\* only TypeError from len() and AttributeError from a lookup are caught;
\* the loop returns at the first member that is no callable
SupportsModelingProtocol(obj) ==
    IF obj.len = "TypeError" THEN [err |-> NoError, value |-> FALSE]
    ELSE IF obj.len # "int" THEN [err |-> obj.len, value |-> None]
    ELSE LET stop == {i \in 1 .. Len(Methods) :
                         obj.attr[Methods[i]] # "callable"}
         IN  IF stop = {} THEN [err |-> NoError, value |-> TRUE]
             ELSE LET i == CHOOSE j \in stop : \A l \in stop : j <= l
                      found == obj.attr[Methods[i]]
                  IN  IF found \in {"other", "absent"}
                      THEN [err |-> NoError, value |-> FALSE]
                      ELSE [err |-> found, value |-> None]

\* supports_modeling_protocol(obj)
DoSupports ==
    \E obj \in Objects :
        LET r == SupportsModelingProtocol(obj)
        IN  /\ ret' = r.value
            /\ err' = r.err
            /\ op' = [name |-> "supports_modeling_protocol", key |-> obj,
                      arg |-> <<>>, names |-> 0, free |-> 0]
            /\ UNCHANGED <<parameters, frozen, gvars, peer>>

\* the function reads no store: the one of the model is empty
InitProtocol == Init /\ parameters = <<>>

NextProtocol == DoSupports

SpecProtocol == InitProtocol /\ [][NextProtocol]_vars

----------------------------------------------------------------------------
(* get_gradient and check_gradient, one step for each call they make on    *)
(* the store: get_vector, get_value, set_vector.  get_value is the         *)
(* subclass's evaluation; it reads the store and leaves it as it is.       *)

Quiet(q) == proc[q].pc \in {"idle", "done", "raised", "failed"}

\* where get_gradient returns to: its caller, or line 198 of check_gradient
ReturnTo(p) == IF proc[p].kind = "get_gradient" THEN "done" ELSE "cg_vector"

\* context p calls get_gradient or check_gradient (which calls get_gradient
\* first); serial: no other call is under way
Call(p, kind, serial) ==
    /\ Quiet(p)
    /\ calls < MaxCalls
    /\ serial => \A q \in Procs : Quiet(q)
    /\ proc' = [q \in Procs |->
                  IF q = p
                  THEN [IdleProc EXCEPT !.pc = "gg_vector", !.kind = kind,
                                        !.base = Snapshot(parameters, frozen)]
                  ELSE IF \A r \in Procs : Quiet(r) THEN IdleProc
                  ELSE proc[q]]
    /\ origin' = IF \A q \in Procs : Quiet(q)
                 THEN Snapshot(parameters, frozen) ELSE origin
    /\ calls' = calls + 1
    /\ UNCHANGED <<parameters, frozen, err, op, ret, peer>>

\* vector = self.get_vector(), at label from
ReadVector(p, from, next, empty) ==
    /\ proc[p].pc = from
    /\ LET r == GetVector(parameters, frozen)
       IN  proc' = [proc EXCEPT ![p] =
                      IF r.err # NoError THEN [@ EXCEPT !.pc = "raised"]
                      ELSE [@ EXCEPT !.vector = r.value, !.i = 1,
                                     !.pc = IF Len(r.value) = 0
                                            THEN empty ELSE next]]
    /\ UNCHANGED <<parameters, frozen, err, op, origin, calls, ret, peer>>

\* self.get_value(*args, **kwargs), at label from
Evaluate(p, from, next) ==
    /\ proc[p].pc = from
    /\ LET found == GetVector(parameters, frozen).value
       IN  proc' = [proc EXCEPT ![p] =
                      [@ EXCEPT !.seen = found,
                                !.nevals = @ + 1,
                                !.clean = @ /\ found = proc[p].vector,
                                !.pc = next]]
    /\ UNCHANGED <<parameters, frozen, err, op, origin, calls, ret, peer>>

\* vector[i] = x; self.set_vector(vector), at label from
WriteVector(p, from, x, v, next) ==
    /\ proc[p].pc = from
    /\ LET vector == [proc[p].vector EXCEPT ![proc[p].i] = x]
           r      == SetVector(parameters, frozen, vector)
       IN  /\ parameters' = r.parameters
           /\ frozen' = r.frozen
           /\ proc' = [proc EXCEPT ![p] =
                         [@ EXCEPT !.vector = vector, !.v = v,
                                   !.pc = IF r.err = NoError THEN next ELSE "raised"]]
    /\ UNCHANGED <<err, op, origin, calls, ret, peer>>

\* the loop goes to its next index, or ends
Advance(r, again, end) ==
    IF r.i < Len(r.vector) THEN [r EXCEPT !.i = @ + 1, !.pc = again]
    ELSE [r EXCEPT !.pc = end]

\* get_gradient, line 97
GG_GetVector(p) == ReadVector(p, "gg_vector", "gg_value0", "gg_value0")

\* line 98
GG_Value0(p) ==
    /\ proc[p].pc = "gg_value0"
    /\ LET found == GetVector(parameters, frozen).value
       IN  proc' = [proc EXCEPT ![p] =
                      [@ EXCEPT !.seen = found,
                                !.nevals = @ + 1,
                                !.clean = @ /\ found = proc[p].vector,
                                !.pc = IF Len(proc[p].vector) = 0
                                       THEN ReturnTo(p) ELSE "gg_perturb"]]
    /\ UNCHANGED <<parameters, frozen, err, op, origin, calls, ret, peer>>

\* lines 101-102
GG_Perturb(p) ==
    WriteVector(p, "gg_perturb", proc[p].vector[proc[p].i] + EPS,
                proc[p].vector[proc[p].i], "gg_value")

\* line 103
GG_Value(p) == Evaluate(p, "gg_value", "gg_restore")

\* lines 104-107
GG_Restore(p) ==
    /\ proc[p].pc = "gg_restore"
    /\ LET vector == [proc[p].vector EXCEPT ![proc[p].i] = proc[p].v]
           r      == SetVector(parameters, frozen, vector)
       IN  /\ parameters' = r.parameters
           /\ frozen' = r.frozen
           /\ proc' = [proc EXCEPT ![p] =
                         IF r.err # NoError
                         THEN [@ EXCEPT !.vector = vector, !.pc = "raised"]
                         ELSE Advance([@ EXCEPT !.vector = vector],
                                      "gg_perturb", ReturnTo(p))]
    /\ UNCHANGED <<err, op, origin, calls, ret, peer>>

\* check_gradient, line 198
CG_GetVector(p) == ReadVector(p, "cg_vector", "cg_plus", "done")

\* lines 201-202
CG_Plus(p) ==
    WriteVector(p, "cg_plus", proc[p].vector[proc[p].i] + CheckEps,
                proc[p].vector[proc[p].i], "cg_valuep")

\* line 203
CG_ValueP(p) == Evaluate(p, "cg_valuep", "cg_minus")

\* lines 205-206
CG_Minus(p) ==
    WriteVector(p, "cg_minus", proc[p].v - CheckEps, proc[p].v, "cg_valuem")

\* line 207
CG_ValueM(p) == Evaluate(p, "cg_valuem", "cg_restore")

\* lines 209-210
CG_Restore(p) ==
    WriteVector(p, "cg_restore", proc[p].v, proc[p].v, "cg_assert")

\* lines 212-215: the comparison of the two gradients depends on get_value
CG_Assert(p) ==
    /\ proc[p].pc = "cg_assert"
    /\ \E close \in BOOLEAN :
          proc' = [proc EXCEPT ![p] =
                     IF close THEN Advance(@, "cg_plus", "done")
                     ELSE [@ EXCEPT !.pc = "failed"]]
    /\ UNCHANGED <<parameters, frozen, err, op, origin, calls, ret, peer>>

GradientStep(p) ==
    \/ GG_GetVector(p)
    \/ GG_Value0(p)
    \/ GG_Perturb(p)
    \/ GG_Value(p)
    \/ GG_Restore(p)
    \/ CG_GetVector(p)
    \/ CG_Plus(p)
    \/ CG_ValueP(p)
    \/ CG_Minus(p)
    \/ CG_ValueM(p)
    \/ CG_Restore(p)
    \/ CG_Assert(p)

\* names are frozen before the first call
FreezeBeforeCalls == calls = 0 /\ DoFreeze

\* the calls on a store are serialized: one returns before the next starts
NextSerial ==
    \/ FreezeBeforeCalls
    \/ \E p \in Procs : \E kind \in {"get_gradient", "check_gradient"} :
          Call(p, kind, TRUE)
    \/ \E p \in Procs : GradientStep(p)

SpecSerial == Init /\ [][NextSerial]_vars

\* two contexts call without any lock
NextConcurrent ==
    \/ FreezeBeforeCalls
    \/ \E p \in Procs : \E kind \in {"get_gradient", "check_gradient"} :
          Call(p, kind, FALSE)
    \/ \E p \in Procs : GradientStep(p)

\* the store of the two contexts: the constructor is given no name or the
\* name a
InitPlain == Init /\ KeySet(parameters) \subseteq {NameA}

SpecConcurrent == InitPlain /\ [][NextConcurrent]_vars

----------------------------------------------------------------------------
(* Observations used by the properties *)

IsPrefix(s, t) == Len(s) <= Len(t) /\ \A i \in 1 .. Len(s) : s[i] = t[i]

\* s without its element at position i
RemoveAt(s, i) == [j \in 1 .. Len(s) - 1 |-> IF j < i THEN s[j] ELSE s[j + 1]]

PositionIn(s, x) == CHOOSE i \in 1 .. Len(s) : s[i] = x

InSeq(s, x) == \E i \in 1 .. Len(s) : s[i] = x

\* k is a key that store[k] = v treats as a name
PlainKey(k) == ~HasWildcard(k) /\ ~ParseInt(k).ok

----------------------------------------------------------------------------
(* Properties of the store *)

\* C10: in every reachable state the names of the value mapping are the
\* names of the frozen mapping.
C10_SameNames == KeySet(parameters) = DOMAIN frozen

\* C1: len(store) is the number of names whose frozen flag is false, and
\* get_parameter_names(), get_vector() and get_bounds() return sequences of
\* that length.
C1_Lengths ==
    LET free  == {k \in KeySet(parameters) : k \in DOMAIN frozen /\ ~frozen[k]}
        names == GetParameterNames(parameters, frozen, FALSE)
        vec   == GetVector(parameters, frozen)
    IN  /\ StoreLen(frozen) = Cardinality(free)
        /\ names.err = NoError /\ Len(names.value) = Cardinality(free)
        /\ vec.err = NoError /\ Len(vec.value) = Cardinality(free)
        /\ Len(GetBounds(frozen)) = Cardinality(free)

\* C9: the names are in lexicographic order after construction; every
\* operation keeps the sequence of names it found as a prefix of the sequence
\* it leaves, and store[k] = v with a new name k appends k, unfrozen.
C9_AppendOnly ==
    /\ \A i, j \in 1 .. Len(parameters) :
          i < j => LexLess(parameters[i].k, parameters[j].k)
    /\ [][/\ IsPrefix(ParamKeys(parameters), ParamKeys(parameters'))
          /\ (/\ op'.name = "__setitem__"
              /\ err' = NoError
              /\ PlainKey(op'.key)
              /\ op'.key \notin KeySet(parameters))
             => /\ ParamKeys(parameters') = Append(ParamKeys(parameters), op'.key)
                /\ frozen'[op'.key] = FALSE]_vars

\* C9 witness: store[c] = v has put the new name c behind the two names the
\* constructor sorted.
C9_Witness ==
    /\ op.name = "__setitem__"
    /\ op.key = NameC
    /\ op.names = 2
    /\ Len(parameters) = 3
    /\ parameters[3].k = NameC
    /\ frozen[NameC] = FALSE

\* C2: set_vector(get_vector()) completes without error and leaves every
\* parameter value unchanged.
C2_RoundTrip ==
    [][(/\ op'.name = "set_vector"
        /\ GetVector(parameters, frozen).err = NoError
        /\ op'.arg = GetVector(parameters, frozen).value)
       => /\ err' = NoError
          /\ parameters' = parameters]_vars

\* C3: after set_vector(vector), vector as long as the free count, the
\* parameter named get_parameter_names()[i] holds vector[i], and get_vector()
\* returns the vector.
C3_SetVectorAssigns ==
    [][LET names == GetParameterNames(parameters, frozen, FALSE)
       IN  (/\ op'.name = "set_vector"
            /\ names.err = NoError
            /\ Len(op'.arg) = Len(names.value))
           => /\ err' = NoError
              /\ \A i \in 1 .. Len(op'.arg) :
                    Lookup(parameters', names.value[i]) = op'.arg[i]
              /\ GetVector(parameters', frozen').value = op'.arg]_vars

\* C4: set_vector(vector) ends in an error when the vector is shorter or
\* longer than the free count.
C4_LengthMismatch ==
    [][LET names == GetParameterNames(parameters, frozen, FALSE)
       IN  (/\ op'.name = "set_vector"
            /\ names.err = NoError
            /\ Len(op'.arg) # Len(names.value))
           => err' # NoError]_vars

\* What freeze_parameter(n) and a following thaw_parameter(n) do to a store
\* in which n is free: n leaves get_parameter_names() and its value leaves
\* get_vector(), the other free names stay in order, all names and values
\* stay, and the thaw brings both sequences back.
FreezeThawEffect ==
    LET n      == op'.key
        names  == GetParameterNames(parameters, frozen, FALSE)
        vec    == GetVector(parameters, frozen)
        i      == PositionIn(names.value, n)
        names1 == GetParameterNames(parameters', frozen', FALSE)
        vec1   == GetVector(parameters', frozen')
        thawed == ThawParameter(frozen', n)
    IN  /\ err' = NoError
        /\ names1 = [err |-> NoError, value |-> RemoveAt(names.value, i)]
        /\ vec1 = [err |-> NoError, value |-> RemoveAt(vec.value, i)]
        /\ GetParameterNames(parameters', frozen', TRUE)
              = GetParameterNames(parameters, frozen, TRUE)
        /\ ParamValues(parameters') = ParamValues(parameters)
        /\ thawed.err = NoError
        /\ GetParameterNames(parameters', thawed.frozen, FALSE) = names
        /\ GetVector(parameters', thawed.frozen) = vec

\* freeze_parameter(n) is called with a name n that get_parameter_names() lists
FreezesFreeName ==
    LET names == GetParameterNames(parameters, frozen, FALSE)
    IN  /\ op'.name = "freeze_parameter"
        /\ names.err = NoError
        /\ InSeq(names.value, op'.key)

\* C5 as stated: freezing any free name n removes exactly n, and thawing n
\* restores the free names and the vector.
C5_FreezeThawAnyName == [][FreezesFreeName => FreezeThawEffect]_vars

\* C5 amended: the same, for a free name n that is the only name of the
\* store that the pattern n matches.
C5_FreezeThaw ==
    [][(/\ FreezesFreeName
        /\ {k \in DOMAIN frozen : FnMatch(k, op'.key)} = {op'.key})
       => FreezeThawEffect]_vars

\* C5 witness: freeze_parameter(b) on the store a, b, c with all names free
\* has left a and c free, in this order.
C5_Witness ==
    /\ op.name = "freeze_parameter"
    /\ op.key = NameB
    /\ op.free = 3
    /\ ParamKeys(parameters) = <<NameA, NameB, NameC>>
    /\ GetParameterNames(parameters, frozen, FALSE).value = <<NameA, NameC>>

----------------------------------------------------------------------------
(* Properties of get_gradient and check_gradient *)

\* get_gradient has returned in context p: to its caller, or into
\* check_gradient
GradientReturned(p) ==
    \/ proc[p].kind = "get_gradient" /\ proc[p].pc = "done"
    \/ proc[p].kind = "check_gradient" /\ proc[p].pc = "cg_vector"

\* C6: when get_gradient returns, every value and every frozen flag is what
\* it was before the call, and before each perturbation the store's vector
\* is the baseline vector.
C6_GradientRestores ==
    \A p \in Procs :
        /\ GradientReturned(p)
              => /\ parameters = proc[p].base.parameters
                 /\ frozen = proc[p].base.frozen
        /\ proc[p].pc = "gg_perturb"
              => GetVector(parameters, frozen)
                    = GetVector(proc[p].base.parameters, proc[p].base.frozen)

\* C7: after check_gradient ends, with or without a gradient mismatch,
\* get_vector() is the vector of before the call.
C7_VerifierRestores ==
    \A p \in Procs :
        (proc[p].kind = "check_gradient" /\ proc[p].pc \in {"done", "failed"})
            => GetVector(parameters, frozen)
                  = GetVector(proc[p].base.parameters, proc[p].base.frozen)

\* C8: two calls that interleave can corrupt the perturb/restore sequence,
\* and two calls that are serialized cannot.  The sequence is intact when
\* every get_value so far has found the baseline with the one coordinate
\* perturbed that its routine had set, and when, all calls having ended, the
\* store's vector is the vector of before the first of them.
C8_PerturbRestoreIntact ==
    /\ \A p \in Procs : proc[p].clean
    /\ (/\ \A p \in Procs : proc[p].pc \in {"idle", "done", "failed"}
        /\ \E p \in Procs : proc[p].pc # "idle")
          => GetVector(parameters, frozen)
                = GetVector(origin.parameters, origin.frozen)

----------------------------------------------------------------------------
(* Properties of the pattern and index operations *)

\* C11: get_parameter, set_parameter, freeze_parameter and thaw_parameter
\* each end in ValueError (unknown parameter) when the pattern matches no
\* name of the store, and then no value and no frozen flag is changed.
C11_ZeroMatches ==
    /\ [](\A pat \in Patterns(parameters) :
             Matches(parameters, pat) = {}
                => GetParameter(parameters, pat).err = "ValueError")
    /\ [][(/\ op'.name \in {"set_parameter", "freeze_parameter", "thaw_parameter"}
            /\ Matches(parameters, op'.key) = {})
           => /\ err' = "ValueError"
              /\ parameters' = parameters
              /\ frozen' = frozen]_vars

\* C12: store[i] and store[i] = v, the key parsing as the integer i, end in
\* IndexError for every i outside 0 .. total count - 1, negative i included;
\* for i inside, the read returns and the write overwrites the value of the
\* i-th name, and no frozen flag changes.
C12_IndexAccess ==
    /\ [](\A k \in Keys(parameters) :
             ParseInt(k).ok
                => LET i == ParseInt(k).n
                       r == GetItem(parameters, k)
                   IN  IF i < 0 \/ i >= Len(parameters)
                       THEN r.err = "IndexError"
                       ELSE r = [err |-> NoError, value |-> parameters[i + 1].v])
    /\ [][(op'.name = "__setitem__" /\ ParseInt(op'.key).ok)
           => LET i == ParseInt(op'.key).n
              IN  IF i < 0 \/ i >= Len(parameters)
                  THEN err' = "IndexError"
                  ELSE /\ err' = NoError
                       /\ parameters' =
                             [parameters EXCEPT ![i + 1].v = op'.arg.items[1]]
                       /\ frozen' = frozen]_vars

\* a matcher whose only special characters are "*" (any run of characters)
\* and "?" (any one character)
RECURSIVE GlobMatch(_, _)
GlobMatch(s, p) ==
    IF p = <<>> THEN s = <<>>
    ELSE IF Head(p) = "*"
    THEN \E n \in 0 .. Len(s) : GlobMatch(SubSeq(s, n + 1, Len(s)), Tail(p))
    ELSE IF Head(p) = "?"
    THEN s # <<>> /\ GlobMatch(Tail(s), Tail(p))
    ELSE s # <<>> /\ Head(s) = Head(p) /\ GlobMatch(Tail(s), Tail(p))

\* C13: get_parameter, set_parameter, freeze_parameter and thaw_parameter
\* act on the names that the pattern matches when "*" and "?" are its only
\* special characters and every other character, "[", "]" and "!" included,
\* stands for itself: a pattern without "*" and "?" selects the name equal
\* to it and no other.
C13_TwoMetacharacters ==
    /\ [](\A pat \in Patterns(parameters) :
             LET hit == {i \in 1 .. Len(parameters) :
                           GlobMatch(parameters[i].k, pat)}
                 r   == GetParameter(parameters, pat)
             IN  /\ (r.err = "ValueError") = (hit = {})
                 /\ Cardinality(hit) = 1
                       => r.value = parameters[CHOOSE i \in hit : TRUE].v)
    /\ [][LET pat == op'.key
              hit == {k \in DOMAIN frozen : GlobMatch(k, pat)}
              set == {i \in 1 .. Len(parameters) : GlobMatch(parameters[i].k, pat)}
          IN  /\ op'.name \in {"freeze_parameter", "thaw_parameter"}
                    => /\ (err' = "ValueError") = (hit = {})
                       /\ frozen' = [k \in DOMAIN frozen |->
                                       IF k \in hit
                                       THEN op'.name = "freeze_parameter"
                                       ELSE frozen[k]]
              /\ (op'.name = "set_parameter" /\ op'.arg.scalar)
                    => /\ (err' = "ValueError") = (set = {})
                       /\ parameters' = [i \in 1 .. Len(parameters) |->
                                           IF i \in set
                                           THEN [k |-> parameters[i].k,
                                                 v |-> op'.arg.items[1]]
                                           ELSE parameters[i]]]_vars

\* the store after the j-th of the positions hit, in order, was given
\* items[j], or item when items is a scalar
AssignedInOrder(P, hit, value) ==
    [i \in 1 .. Len(P) |->
        IF i \notin hit THEN P[i]
        ELSE [k |-> P[i].k,
              v |-> IF value.scalar THEN value.items[1]
                    ELSE value.items[Cardinality({j \in hit : j <= i})]]]

\* C14: set_parameter(pattern, value), the pattern matching some name:
\* with a sequence whose length is not the number of matches, shorter or
\* longer, the call ends in an error; with a sequence of that length the
\* elements go one-to-one to the matches in iteration order; with a scalar
\* every match gets the scalar.
C14_SequenceLength ==
    [][(op'.name = "set_parameter" /\ Matches(parameters, op'.key) # {})
       => LET hit   == Matches(parameters, op'.key)
              value == op'.arg
          IN  IF ~value.scalar /\ Len(value.items) # Cardinality(hit)
              THEN err' = "IndexError"
              ELSE /\ err' = NoError
                   /\ parameters' = AssignedInOrder(parameters, hit, value)]_vars

\* C15: check_vector(vector), the vector as long as the free count, returns
\* False exactly when some index i has a bound (a, b) with a set and
\* vector[i] < a, or b set and vector[i] > b; a value equal to a or to b is
\* accepted, and with the bounds (None, None) of the class every such vector
\* is accepted.
C15_CheckVector ==
    (op.name = "check_vector" /\ Len(op.arg) = op.free)
        => LET bounds == op.key
               vector == op.arg
               below  == {i \in 1 .. Len(bounds) :
                             bounds[i][1].set /\ vector[i] < bounds[i][1].at}
               above  == {i \in 1 .. Len(bounds) :
                             bounds[i][2].set /\ vector[i] > bounds[i][2].at}
           IN  /\ err = NoError
               /\ Len(bounds) = op.free
               /\ ret = (below \cup above = {})
               /\ bounds = GetBounds(frozen) => ret

\* C15 witness: with the bounds (0, 0) and (None, 0) on two free parameters,
\* the vector (0, -1), its first value on both ends of its bound, was
\* accepted.
C15_Witness ==
    /\ op.name = "check_vector"
    /\ op.free = 2
    /\ op.key = <<<<BoundAt(0), BoundAt(0)>>, <<NoBound, BoundAt(0)>>>>
    /\ op.arg = <<0, -1>>
    /\ err = NoError
    /\ ret = TRUE

----------------------------------------------------------------------------
(* Properties of supports_modeling_protocol *)

\* obj has a length and each of the eleven members is there and callable
FollowsProtocol(obj) ==
    /\ obj.len = "int"
    /\ \A m \in MethodNames : obj.attr[m] = "callable"

----------------------------------------------------------------------------
(* Properties of two instances *)

\* C17: no call on one instance changes the names, the values or the frozen
\* flags seen through another: a step changes the store of at most one
\* instance.
C17_NothingShared ==
    [][\/ peer' = peer
       \/ parameters' = parameters /\ frozen' = frozen]_vars

----------------------------------------------------------------------------
(* Properties of the evaluations of get_gradient *)

\* the names frozen when context p made its call have the values of then
FrozenAsBefore(p) ==
    \A k \in DOMAIN proc[p].base.frozen :
        (proc[p].base.frozen[k] /\ k \in KeySet(proc[p].base.parameters))
            => /\ k \in KeySet(parameters)
               /\ Lookup(parameters, k) = Lookup(proc[p].base.parameters, k)

\* C18: get_gradient, called on a store whose get_vector() returns vector0,
\* makes free count + 1 evaluations of get_value and returns: the first at
\* vector0, the one for index i at vector0 with EPS added to coordinate i,
\* every frozen parameter at its value of before the call during each of
\* them.
C18_Evaluations ==
    \A p \in Procs :
        LET free    == StoreLen(proc[p].base.frozen)
            vector0 == GetVector(proc[p].base.parameters, proc[p].base.frozen)
            now     == GetVector(parameters, frozen)
        IN  vector0.err = NoError =>
            /\ proc[p].kind = "get_gradient" => proc[p].pc # "raised"
            /\ GradientReturned(p) => proc[p].nevals = free + 1
            /\ proc[p].pc = "gg_value0"
                  => /\ proc[p].nevals = 0
                     /\ now = vector0
                     /\ FrozenAsBefore(p)
            /\ proc[p].pc = "gg_value"
                  => /\ proc[p].nevals = proc[p].i
                     /\ now.err = NoError
                     /\ now.value = [vector0.value EXCEPT ![proc[p].i] = @ + EPS]
                     /\ FrozenAsBefore(p)

----------------------------------------------------------------------------
(* Properties of what a call leaves alone *)

\* C19: set_vector(vector), whatever the names and the vector, leaves the
\* list of all names, every frozen flag and the value of every frozen
\* parameter as they were.
C19_OnlyFreeValues ==
    [][op'.name = "set_vector"
       => /\ ParamKeys(parameters') = ParamKeys(parameters)
          /\ frozen' = frozen
          /\ \A i \in 1 .. Len(parameters) :
                (/\ parameters[i].k \in DOMAIN frozen
                 /\ frozen[parameters[i].k])
                    => parameters'[i].v = parameters[i].v]_vars

\* C20: a call on the store that ends in an error leaves the names, their
\* order, the values and the frozen flags as they were; a set_parameter
\* that fails on a sequence shorter than the match count has assigned
\* nothing.
C20_FailureChangesNothing ==
    [][err' # NoError
       => /\ parameters' = parameters
          /\ frozen' = frozen]_vars

====
